---- MODULE Spec2Model ----
(***************************************************************************)
(* A model of the request-logging middleware of logger.go: the constructor *)
(* New, the handler returned by Logger.Handler, and the response observer  *)
(* customResponseWriter it hands to the inner handler.                     *)
(*                                                                         *)
(* The inner handler, the underlying http.ResponseWriter and the           *)
(* *log.Logger line sink are the environment.  The inner handler is any    *)
(* sequence of WriteHeader / Write / Flush / Hijack calls on the observer; *)
(* the underlying writer answers a Write with any (n, err) and may or may  *)
(* not implement http.Flusher and http.Hijacker; the sink appends one      *)
(* record per Printf call, stamped with the prefix and flags it was built  *)
(* with.  The elapsed time in the line (time.Since(start)) carries no      *)
(* state of the program and is left out of the line record.                *)
(***************************************************************************)
EXTENDS Integers, Sequences, FiniteSets, TLC

VARIABLES
    opts,     \* the variadic argument list handed to New
    l,        \* the *Logger returned by New (NoLogger before New ran)
    pc,       \* per request: "idle", "serving" (inside next.ServeHTTP), "done"
    req,      \* per request: the *http.Request r
    w,        \* per request: the underlying http.ResponseWriter's capabilities
    crw,      \* the observers: status and size of each customResponseWriter
    issued,   \* per request: the calls the inner handler made, with what it got back
    calls,    \* per request: the calls the underlying writer received, with what it returned
    sink      \* the lines written to the logger's output, in order

vars == <<opts, l, pc, req, w, crw, issued, calls, sink>>

----------------------------------------------------------------------------
(* Bounds and input sets *)

\* The most calls one inner handler makes on its observer.
MaxOps == 2

\* log.LstdFlags = Ldate | Ltime, the initial value of flags in New.
LstdFlags == 3

Nil == "nil"

Reqs == {"r1", "r2"}

XFF == "X-Forwarded-For"
XRI == "X-Real-IP"

ZeroOptions ==
    [ Prefix               |-> "",
      DisableAutoBrackets  |-> FALSE,
      RemoteAddressHeaders |-> <<>>,
      Out                  |-> Nil,
      OutputFlags          |-> 0,
      IgnoredRequestURIs   |-> <<>> ]

NoLogger == [built |-> FALSE]

NoRequest ==
    [ RemoteAddr |-> "", Method |-> "", RequestURI |-> "", Proto |-> "",
      Header |-> <<>> ]

NoWriter == [flusher |-> FALSE, hijacker |-> FALSE]

\* The zero value of the struct: what an observer holds before it is built.
ZeroObserver == [status |-> 0, size |-> 0]

----------------------------------------------------------------------------
(* New *)

\* len(opts) == 0 ? Options{} : opts[0]
FirstOptions(os) == IF Len(os) = 0 THEN ZeroOptions ELSE os[1]

EffectivePrefix_alwaysBrackets(o) ==
    IF Len(o.Prefix) > 0 THEN "[" \o o.Prefix \o "] " ELSE o.Prefix

EffectivePrefix(o) ==
    IF Len(o.Prefix) > 0 /\ o.DisableAutoBrackets = FALSE
    THEN "[" \o o.Prefix \o "] "
    ELSE o.Prefix

Output(o) == IF o.Out # Nil THEN o.Out ELSE "os.Stdout"

ResolveFlags_minusOneVerbatim(o) ==
    IF o.OutputFlags # 0 THEN o.OutputFlags ELSE LstdFlags

ResolveFlags(o) ==
    IF o.OutputFlags = -1 THEN 0
    ELSE IF o.OutputFlags # 0 THEN o.OutputFlags
    ELSE LstdFlags

New ==
    /\ l = NoLogger
    /\ LET o == FirstOptions(opts) IN
       l' = [ built  |-> TRUE,
              Logger |-> [ out    |-> Output(o),
                           prefix |-> EffectivePrefix(o),
                           flags  |-> ResolveFlags(o) ],
              opt    |-> o ]
    /\ UNCHANGED <<opts, pc, req, w, crw, issued, calls, sink>>

----------------------------------------------------------------------------
(* customResponseWriter *)

\* crw := newCustomResponseWriter(w): every invocation of the handler builds
\* an observer of its own; the observer is named by the invocation it serves.
crwOf_shared(r) == "r1"

crwOf(r) == r

newCustomResponseWriter_zeroStatus == [status |-> 0, size |-> 0]

newCustomResponseWriter == [status |-> 200, size |-> 0]

\* c.status = status
RecordStatus_keepFirst(old, status) == old

RecordStatus(old, status) == status

\* c.size += size, where size is what the underlying Write returned
AddSize_requested(old, b, n) == old + Len(b)

AddSize(old, b, n) == old + n

\* return size, err
WriteResult_fullCount(b, n, err) == [n |-> Len(b), err |-> err]

WriteResult(b, n, err) == [n |-> n, err |-> err]

HijackUnsupported_nilError == [conn |-> Nil, buf |-> Nil, err |-> Nil]

HijackUnsupported ==
    [ conn |-> Nil, buf |-> Nil,
      err  |-> "ResponseWriter does not implement the Hijacker interface" ]

Serving(r) == pc[r] = "serving" /\ Len(issued[r]) < MaxOps

WriteHeader(r, status) ==
    /\ Serving(r)
    /\ crw' = [crw EXCEPT ![crwOf(r)].status = RecordStatus(@, status)]
    /\ calls' = [calls EXCEPT ![r] = Append(@, [op |-> "WriteHeader", status |-> status])]
    /\ issued' = [issued EXCEPT ![r] = Append(@, [op |-> "WriteHeader", status |-> status])]
    /\ UNCHANGED <<opts, l, pc, req, w, sink>>

\* (n, err) is the underlying writer's answer to Write(b).
Write(r, b, n, err) ==
    /\ Serving(r)
    /\ calls' = [calls EXCEPT ![r] = Append(@, [op |-> "Write", b |-> b, n |-> n, err |-> err])]
    /\ crw' = [crw EXCEPT ![crwOf(r)].size = AddSize(@, b, n)]
    /\ LET res == WriteResult(b, n, err) IN
       issued' = [issued EXCEPT ![r] =
                    Append(@, [op |-> "Write", b |-> b, n |-> res.n, err |-> res.err])]
    /\ UNCHANGED <<opts, l, pc, req, w, sink>>

Flush(r) ==
    /\ Serving(r)
    /\ calls' = IF w[r].flusher
                THEN [calls EXCEPT ![r] = Append(@, [op |-> "Flush"])]
                ELSE calls
    /\ issued' = [issued EXCEPT ![r] = Append(@, [op |-> "Flush"])]
    /\ UNCHANGED <<opts, l, pc, req, w, crw, sink>>

\* res is the underlying writer's answer to Hijack(), when it has one.
Hijack(r, res) ==
    /\ Serving(r)
    /\ LET ret == IF w[r].hijacker THEN res ELSE HijackUnsupported IN
       /\ calls' = IF w[r].hijacker
                   THEN [calls EXCEPT ![r] = Append(@, [op |-> "Hijack", res |-> res])]
                   ELSE calls
       /\ issued' = [issued EXCEPT ![r] = Append(@, [op |-> "Hijack", res |-> ret])]
    /\ UNCHANGED <<opts, l, pc, req, w, crw, sink>>

----------------------------------------------------------------------------
(* Logger.Handler *)

\* r.Header.Get(key): the first value under key, "" when there is none.
HeaderGet(h, key) ==
    IF key \in DOMAIN h /\ Len(h[key]) > 0 THEN h[key][1] ELSE ""

HasPrefix(s, p) == Len(p) <= Len(s) /\ SubSeq(s, 1, Len(p)) = p

IsIgnored_prefix(ignored, uri) ==
    \E i \in 1..Len(ignored) : HasPrefix(uri, ignored[i])

\* for _, ignoredURI := range l.opt.IgnoredRequestURIs { if ignoredURI == r.RequestURI { return } }
IsIgnored(ignored, uri) ==
    \E i \in 1..Len(ignored) : ignored[i] = uri

RECURSIVE AddrLoop_noBreak(_, _, _, _)
AddrLoop_noBreak(keys, i, h, addr) ==
    IF i > Len(keys) THEN addr
    ELSE LET val == HeaderGet(h, keys[i]) IN
         AddrLoop_noBreak(keys, i + 1, h, IF Len(val) > 0 THEN val ELSE addr)

\* for _, headerKey := range keys { if val := Get(headerKey); len(val) > 0 { addr = val; break } }
RECURSIVE AddrLoop(_, _, _, _)
AddrLoop(keys, i, h, addr) ==
    IF i > Len(keys) THEN addr
    ELSE LET val == HeaderGet(h, keys[i]) IN
         IF Len(val) > 0 THEN val ELSE AddrLoop(keys, i + 1, h, addr)

\* l.Printf("(%s) \"%s %s %s\" %d %d %s", ...) through the embedded *log.Logger
Line(lg, rq, addr, c) ==
    [ out    |-> lg.Logger.out,
      prefix |-> lg.Logger.prefix,
      flags  |-> lg.Logger.flags,
      addr   |-> addr,
      method |-> rq.Method,
      uri    |-> rq.RequestURI,
      proto  |-> rq.Proto,
      status |-> c.status,
      size   |-> c.size ]

\* The handler is entered: start := time.Now(); crw := newCustomResponseWriter(w);
\* next.ServeHTTP(crw, r) begins.
Begin(r, rq, wr) ==
    /\ l # NoLogger
    /\ pc[r] = "idle"
    /\ pc' = [pc EXCEPT ![r] = "serving"]
    /\ req' = [req EXCEPT ![r] = rq]
    /\ w' = [w EXCEPT ![r] = wr]
    /\ crw' = [crw EXCEPT ![crwOf(r)] = newCustomResponseWriter]
    /\ UNCHANGED <<opts, l, issued, calls, sink>>

\* next.ServeHTTP returned: the ignore loop, the address loop and Printf.
Finish(r) ==
    /\ pc[r] = "serving"
    /\ pc' = [pc EXCEPT ![r] = "done"]
    /\ sink' = IF IsIgnored(l.opt.IgnoredRequestURIs, req[r].RequestURI)
               THEN sink
               ELSE Append(sink,
                           Line(l, req[r],
                                AddrLoop(l.opt.RemoteAddressHeaders, 1,
                                         req[r].Header, req[r].RemoteAddr),
                                crw[crwOf(r)]))
    /\ UNCHANGED <<opts, l, req, w, crw, issued, calls>>

InitRest ==
    /\ l = NoLogger
    /\ pc = [r \in Reqs |-> "idle"]
    /\ req = [r \in Reqs |-> NoRequest]
    /\ w = [r \in Reqs |-> NoWriter]
    /\ crw = [r \in Reqs |-> ZeroObserver]
    /\ issued = [r \in Reqs |-> <<>>]
    /\ calls = [r \in Reqs |-> <<>>]
    /\ sink = <<>>

----------------------------------------------------------------------------
(* The environment: what the inner handler, the transport and the caller of *)
(* New may supply.                                                          *)

HeaderNames == {XFF, XRI}

\* The address a proxy would put under header k.
AddrUnder(k) == IF k = XFF THEN "10.0.0.7" ELSE "10.0.0.8"

\* A header is absent, present with an empty first value, or present.
HeaderValues(k) == {<<>>, <<"">>, <<AddrUnder(k)>>}

Headers == {h \in [HeaderNames -> {<<>>, <<"">>, <<"10.0.0.7">>, <<"10.0.0.8">>}] :
              \A k \in HeaderNames : h[k] \in HeaderValues(k)}

NoHeaders == [k \in HeaderNames |-> <<>>]

\* The transport's peer address of each connection.
PeerAddr(r) == IF r = "r1" THEN "192.0.2.1:4001" ELSE "192.0.2.2:4002"

Request(r, uri, h) ==
    [ RemoteAddr |-> PeerAddr(r), Method |-> "GET", RequestURI |-> uri,
      Proto |-> "HTTP/1.1", Header |-> h ]

Writers == [flusher : BOOLEAN, hijacker : BOOLEAN]

Codes == {200, 404, 500}

Payloads == {"b", "ba"}

Errs == {Nil, "write: broken pipe"}

HijackResults ==
    { [conn |-> "conn", buf |-> "bufrw", err |-> Nil],
      [conn |-> Nil, buf |-> Nil, err |-> "http: connection has been hijacked"] }

\* One call of the inner handler on its observer.
HandlerCall(r, codes, payloads, errs, hres) ==
    \/ \E s \in codes : WriteHeader(r, s)
    \/ \E b \in payloads, e \in errs : \E n \in 0..Len(b) : Write(r, b, n, e)
    \/ Flush(r)
    \/ \E h \in hres : Hijack(r, h)

----------------------------------------------------------------------------
(* Spec: one request, every behaviour of the inner handler and of the       *)
(* underlying writer.                                                       *)

ObsOptions ==
    { <<>>,
      <<[ZeroOptions EXCEPT !.Out = "buf", !.IgnoredRequestURIs = <<"/foo">>]>> }

ObsRequests(r) == {Request(r, uri, NoHeaders) : uri \in {"/foo", "/bar"}}

Init == opts \in ObsOptions /\ InitRest

Next ==
    \/ New
    \/ \E rq \in ObsRequests("r1"), wr \in Writers : Begin("r1", rq, wr)
    \/ HandlerCall("r1", Codes, Payloads, Errs, HijackResults)
    \/ Finish("r1")

Spec == Init /\ [][Next]_vars

----------------------------------------------------------------------------
(* SpecConfig: one request with a plain inner handler, every configuration  *)
(* and every request the configuration looks at.                            *)

CfgOptions ==
    [ Prefix               : {"", "app"},
      DisableAutoBrackets  : BOOLEAN,
      RemoteAddressHeaders : {<<>>, <<XFF>>, <<XFF, XRI>>, <<XRI, XFF>>},
      Out                  : {"buf"},
      OutputFlags          : {-2, -1, 0, 3, 16},
      IgnoredRequestURIs   : {<<>>, <<"/favicon.ico", "/foo">>} ]

CfgRequests(r) ==
    {Request(r, uri, h) : uri \in {"/foo", "/foo?q=1", "/fo"}, h \in Headers}

PlainWriter == [flusher |-> TRUE, hijacker |-> FALSE]

InitConfig == opts \in ({<<>>} \cup {<<o>> : o \in CfgOptions}) /\ InitRest

NextConfig ==
    \/ New
    \/ \E rq \in CfgRequests("r1") : Begin("r1", rq, PlainWriter)
    \/ HandlerCall("r1", {404}, {"b"}, {Nil}, HijackResults)
    \/ Finish("r1")

SpecConfig == InitConfig /\ [][NextConfig]_vars

----------------------------------------------------------------------------
(* SpecConc: the host server runs the handler for several requests at once. *)

ConcOptions == [ZeroOptions EXCEPT !.Out = "buf", !.IgnoredRequestURIs = <<"/foo">>]

ConcRequests(r) == {Request(r, uri, NoHeaders) : uri \in {"/foo", "/bar"}}

InitConc == opts = <<ConcOptions>> /\ InitRest

NextConc ==
    \/ New
    \/ \E r \in Reqs :
        \/ \E rq \in ConcRequests(r) : Begin(r, rq, PlainWriter)
        \/ HandlerCall(r, {404, 500}, {"b"}, {Nil}, HijackResults)
        \/ Finish(r)

SpecConc == InitConc /\ [][NextConc]_vars

----------------------------------------------------------------------------
(* What the logs say, for the properties below. *)

StatusCalls(r) == SelectSeq(issued[r], LAMBDA c : c.op = "WriteHeader")

WriteReturns(r) == SelectSeq(calls[r], LAMBDA c : c.op = "Write")

RECURSIVE SumN(_)
SumN(s) == IF s = <<>> THEN 0 ELSE s[1].n + SumN(Tail(s))

Last(s) == s[Len(s)]

Matches(r) ==
    \E i \in DOMAIN l.opt.IgnoredRequestURIs :
        l.opt.IgnoredRequestURIs[i] = req[r].RequestURI

Logged(r) == pc[r] = "done" /\ ~Matches(r)

Min(S) == CHOOSE x \in S : \A y \in S : x <= y

----------------------------------------------------------------------------
(* Properties *)

\* C1: once the inner handler has returned, the sink holds no line for a
\* request whose RequestURI equals an entry of IgnoredRequestURIs and exactly
\* one line for any other request; before that it holds none.
C1_OneLineUnlessIgnored ==
    Len(sink) = Cardinality({r \in Reqs : Logged(r)})

C1_Witness ==
    /\ pc["r1"] = "done"
    /\ req["r1"].RequestURI = "/foo"
    /\ l.opt.IgnoredRequestURIs = <<"/favicon.ico", "/foo">>
    /\ Len(issued["r1"]) = MaxOps
    /\ sink = <<>>

\* C2: an observer's size is the sum of the counts the underlying writer
\* returned over the Write calls so far, and the line prints that sum.
C2_SizeIsSumOfReturnedCounts ==
    \A r \in Reqs :
        /\ crw[r].size = SumN(WriteReturns(r))
        /\ Logged(r) => \E i \in DOMAIN sink : sink[i].size = SumN(WriteReturns(r))

C2_Witness ==
    /\ pc["r1"] = "done"
    /\ Len(sink) = 1
    /\ sink[1].size = 2
    /\ \E i \in DOMAIN calls["r1"] :
          LET c == calls["r1"][i] IN
          c.op = "Write" /\ c.n < Len(c.b) /\ c.err # Nil

\* C3 as stated: the recorded status is the code of the first WriteHeader call.
C3_FirstStatusWins ==
    \A r \in Reqs :
        StatusCalls(r) # <<>> => crw[r].status = StatusCalls(r)[1].status

\* C3 as amended: the recorded status, and the status in the line, is the
\* code of the latest WriteHeader call.
C3_LastStatusWins ==
    \A r \in Reqs :
        StatusCalls(r) # <<>> =>
            /\ crw[r].status = Last(StatusCalls(r)).status
            /\ Logged(r) =>
                 \E i \in DOMAIN sink : sink[i].status = Last(StatusCalls(r)).status

C3_Witness ==
    /\ pc["r1"] = "done"
    /\ Len(StatusCalls("r1")) = 2
    /\ StatusCalls("r1")[1].status = 404
    /\ StatusCalls("r1")[2].status = 500
    /\ Len(sink) = 1
    /\ sink[1].status = 500

\* C4: while the inner handler has not called WriteHeader the status is 200,
\* whatever else it called, and the line then reports 200.
C4_DefaultStatus200 ==
    \A r \in Reqs :
        (pc[r] # "idle" /\ StatusCalls(r) = <<>>) =>
            /\ crw[r].status = 200
            /\ Logged(r) => \E i \in DOMAIN sink : sink[i].status = 200

C4_Witness ==
    /\ pc["r1"] = "done"
    /\ Len(issued["r1"]) = MaxOps
    /\ \E i \in DOMAIN issued["r1"] : issued["r1"][i].op = "Write"
    /\ \E i \in DOMAIN issued["r1"] : issued["r1"][i].op = "Hijack"
    /\ StatusCalls("r1") = <<>>
    /\ Len(sink) = 1
    /\ sink[1].status = 200

\* C5: the address in the line is the value of the first configured header
\* with a non-empty value on the request, else the request's RemoteAddr.
C5_FirstHeaderWins ==
    \A r \in Reqs :
        Logged(r) =>
            LET keys == l.opt.RemoteAddressHeaders
                hit  == {i \in DOMAIN keys : HeaderGet(req[r].Header, keys[i]) # ""}
                want == IF hit = {} THEN req[r].RemoteAddr
                        ELSE HeaderGet(req[r].Header, keys[Min(hit)])
            IN  \E i \in DOMAIN sink : sink[i].addr = want

C5_Witness ==
    /\ pc["r1"] = "done"
    /\ l.opt.RemoteAddressHeaders = <<XRI, XFF>>
    /\ req["r1"].Header[XRI] = <<AddrUnder(XRI)>>
    /\ req["r1"].Header[XFF] = <<AddrUnder(XFF)>>
    /\ Len(sink) = 1
    /\ sink[1].addr = AddrUnder(XRI)

\* C6: the underlying writer receives the WriteHeader and Write calls the
\* inner handler issued, in order and with their arguments, and each Write
\* returns to the inner handler the (n, err) the underlying writer returned.
C6_TransparentRelay ==
    \A r \in Reqs :
        LET core(s) == SelectSeq(s, LAMBDA c : c.op \in {"WriteHeader", "Write"})
        IN  core(issued[r]) = core(calls[r])

C6_Witness ==
    /\ Len(issued["r1"]) = MaxOps
    /\ issued["r1"][1].op = "WriteHeader"
    /\ issued["r1"][2].op = "Write"
    /\ issued["r1"][2].n < Len(issued["r1"][2].b)
    /\ issued["r1"][2].err # Nil
    /\ calls["r1"] = issued["r1"]

\* C7: Flush and Hijack are delegated when the underlying writer has the
\* capability and return what it returned; without it Flush does nothing and
\* Hijack returns nil, nil and an error; neither changes status or size, and
\* the request still ends with its line.
C7_Results ==
    \A r \in Reqs :
        LET only(s, op) == SelectSeq(s, LAMBDA c : c.op = op) IN
        /\ only(calls[r], "Flush") =
              (IF w[r].flusher THEN only(issued[r], "Flush") ELSE <<>>)
        /\ only(calls[r], "Hijack") =
              (IF w[r].hijacker THEN only(issued[r], "Hijack") ELSE <<>>)
        /\ \A i \in DOMAIN issued[r] :
              (issued[r][i].op = "Hijack" /\ ~w[r].hijacker) =>
                  /\ issued[r][i].res.conn = Nil
                  /\ issued[r][i].res.buf = Nil
                  /\ issued[r][i].res.err # Nil
        /\ Logged(r) =>
              \E i \in DOMAIN sink :
                  sink[i].status = crw[r].status /\ sink[i].size = crw[r].size

C7_LeavesObserver ==
    \A r \in Reqs :
        (/\ Len(issued'[r]) = Len(issued[r]) + 1
         /\ Last(issued'[r]).op \in {"Flush", "Hijack"}) => crw'[r] = crw[r]

\* C7: the results above hold in every state, and no Flush or Hijack call
\* changes the observer's status or size.
C7_OptionalCapabilities == []C7_Results /\ [][C7_LeavesObserver]_vars

C7_Witness ==
    /\ pc["r1"] = "done"
    /\ w["r1"] = [flusher |-> FALSE, hijacker |-> FALSE]
    /\ Len(issued["r1"]) = 2
    /\ issued["r1"][1].op = "Flush"
    /\ issued["r1"][2].op = "Hijack"
    /\ calls["r1"] = <<>>
    /\ Len(sink) = 1

\* C8: the prefix New binds is "[" + Prefix + "] " for a non-empty Prefix
\* with brackets enabled, "" for an empty Prefix, and Prefix itself when
\* DisableAutoBrackets is set.
C8_EffectivePrefix ==
    l # NoLogger =>
        LET o == IF opts = <<>> THEN ZeroOptions ELSE opts[1] IN
        l.Logger.prefix =
            CASE o.Prefix = ""          -> ""
              [] o.DisableAutoBrackets  -> o.Prefix
              [] OTHER                  -> "[" \o o.Prefix \o "] "

C8_Witness ==
    /\ l # NoLogger
    /\ opts # <<>>
    /\ opts[1].Prefix = "app"
    /\ opts[1].DisableAutoBrackets
    /\ l.Logger.prefix = "app"
    /\ Len(sink) = 1
    /\ sink[1].prefix = "app"

\* C9: the flags New binds are 0 for OutputFlags -1, the standard flags for
\* 0 or no options, and OutputFlags itself otherwise; they never change after
\* New and every line carries them.
C9_Flags ==
    l # NoLogger =>
        LET o    == IF opts = <<>> THEN ZeroOptions ELSE opts[1]
            want == CASE o.OutputFlags = -1 -> 0
                      [] o.OutputFlags = 0  -> LstdFlags
                      [] OTHER              -> o.OutputFlags
        IN  /\ l.Logger.flags = want
            /\ \A i \in DOMAIN sink : sink[i].flags = want

\* C9: the three-way rule holds in every state and for every line, and the
\* logger, once built, is never assigned again.
C9_ResolvedFlags == []C9_Flags /\ [][l # NoLogger => l' = l]_vars

C9_Witness ==
    /\ l # NoLogger
    /\ opts # <<>>
    /\ opts[1].OutputFlags = -1
    /\ l.Logger.flags = 0
    /\ Len(sink) = 1
    /\ sink[1].flags = 0

\* C10: with requests served at once, each request starts on a fresh observer
\* (200, 0), each line's status and size come from the calls of the request
\* the line is for, and there are as many lines as completed requests that
\* are not ignored.
C10_RequestsAreIsolated ==
    /\ \A r \in Reqs :
          LET st == IF StatusCalls(r) = <<>> THEN 200 ELSE Last(StatusCalls(r)).status
              sz == SumN(WriteReturns(r))
          IN  /\ pc[r] # "idle" => crw[r] = [status |-> st, size |-> sz]
              /\ Logged(r) =>
                    \E i \in DOMAIN sink :
                        /\ sink[i].addr = PeerAddr(r)
                        /\ sink[i].status = st
                        /\ sink[i].size = sz
    /\ Len(sink) = Cardinality({r \in Reqs : Logged(r)})
    /\ \A i, j \in DOMAIN sink : sink[i].addr = sink[j].addr => i = j

C10_Witness ==
    /\ \A r \in Reqs : pc[r] = "done" /\ Len(issued[r]) = MaxOps
    /\ Len(sink) = 2
    /\ sink[1].addr = PeerAddr("r2")
    /\ sink[1].status = 500 /\ sink[1].size = 0
    /\ sink[2].addr = PeerAddr("r1")
    /\ sink[2].status = 404 /\ sink[2].size = 1

====
